---- MODULE Spec2Model ----
(***************************************************************************)
(* Model of Arxiv_bot.py: the duplicate-suppression state (.state/         *)
(* posted.json), the identity of an entry, the formatter and the delivery  *)
(* loop run_once_and_post.                                                 *)
(*                                                                         *)
(* A Python str is a sequence of code points (naturals); a Python set is a *)
(* set; a Python list is a sequence.  None is the sequence <<-1>>, which   *)
(* is no string (code points are naturals) and can be compared with one.  *)
(*                                                                         *)
(* Spec is one run of run_once_and_post after another.  SpecExtract is the *)
(* pairing of dt and dd nodes, SpecFormat the formatter at the message     *)
(* budget, SpecSend one call of send_message, SpecOverlap runs on one      *)
(* state file at the same time, SpecDaemon the loop of run_daemon.  Each   *)
(* specification leaves the variables of the others as they are.           *)
(***************************************************************************)
EXTENDS Integers, Sequences, FiniteSets, TLC

VARIABLES
    file,           \* .state/posted.json: [kind, posted_ids, last_run_iso]
    clock,          \* wall clock, advanced at the start of every run
    pc,             \* position of run_once_and_post: idle, loop, done, failed
    entries,        \* run_once_and_post: entries (result of scrape_hep_th_new)
    idx,            \* run_once_and_post: index of the entry the for loop is at
    posted_ids,     \* run_once_and_post: posted_ids (working copy of the set)
    newly_posted,   \* run_once_and_post: newly_posted
    printed,        \* what the run printed on stdout
    sent,           \* history: indices of the entries send_message returned for
    loaded,         \* history: the set _load_state returned at run start
    fileAtStart,    \* history: the state file as it was at run start
    prev,           \* history: indices sent by the run before, when it failed
                    \* and this run fetched the same document again
    recorded,       \* history: ids recorded by runs that saved the state
    evicted,        \* history: ids that _save_state dropped and that no later
                    \* run recorded and saved again
    ext,            \* _extract_entries_after_header: nodes, position, pending_dt,
                    \* entries
    fmt,            \* format_entry_html: the entry and the text returned
    snd,            \* send_message: attempt, backoff, sleeps and outcome
    ovl,            \* two overlapping runs of run_once_and_post
    dmn             \* run_daemon: position, time of day, outcome of the run

\* The variables of one run of run_once_and_post after another.
runVars == <<file, clock, pc, entries, idx, posted_ids, newly_posted, printed,
             sent, loaded, fileAtStart, prev, recorded, evicted>>

\* The variables of the other specifications.
aux == <<ext, fmt, snd, ovl, dmn>>

vars == <<runVars, aux>>

None == <<-1>>

(***************************************************************************)
(* Bounds of the model.                                                    *)
(***************************************************************************)
\* Length of the longest document (number of entries) a fetch returns.
MaxEntries == 2
\* Number of runs of run_once_and_post in a behaviour.
MaxRuns == 2
\* MAX_TRACKED_IDS is 2000 in the source (line 19).  The model scales it
\* down so that a store can be filled and overflown; every formula below is
\* stated in terms of MAX_TRACKED_IDS, not of its value.
MAX_TRACKED_IDS == 3

(***************************************************************************)
(* Strings.                                                                *)
(***************************************************************************)
\* str.isspace for the ASCII range: \t \n \v \f \r, FS GS RS US, space.
IsSpace(c) == c \in {9, 10, 11, 12, 13, 28, 29, 30, 31, 32}

RECURSIVE LStrip(_)
LStrip(s) ==
    IF s = <<>> THEN <<>>
    ELSE IF IsSpace(Head(s)) THEN LStrip(Tail(s)) ELSE s

RECURSIVE RStrip(_)
RStrip(s) ==
    IF s = <<>> THEN <<>>
    ELSE IF IsSpace(s[Len(s)]) THEN RStrip(SubSeq(s, 1, Len(s) - 1)) ELSE s

\* str.strip()
Strip(s) == RStrip(LStrip(s))

\* Positions at which sub occurs in s.
Occurrences(s, sub) ==
    {i \in 1..(Len(s) - Len(sub) + 1) : SubSeq(s, i, i + Len(sub) - 1) = sub}

\* sub in s
Contains(s, sub) == Occurrences(s, sub) # {}

\* s.rsplit(sub, 1)[-1]: what follows the last occurrence of sub (s itself
\* when sub does not occur).
AfterLast(s, sub) ==
    IF ~Contains(s, sub) THEN s
    ELSE LET i == CHOOSE k \in Occurrences(s, sub) :
                      \A j \in Occurrences(s, sub) : j <= k
         IN  SubSeq(s, i + Len(sub), Len(s))

\* Python's str ordering: code point by code point, a proper prefix first.
RECURSIVE StrLess(_, _)
StrLess(a, b) ==
    IF b = <<>> THEN FALSE
    ELSE IF a = <<>> THEN TRUE
    ELSE IF Head(a) # Head(b) THEN Head(a) < Head(b)
    ELSE StrLess(Tail(a), Tail(b))

\* sorted(S) for a set of strings.
RECURSIVE Sorted(_)
Sorted(S) ==
    IF S = {} THEN <<>>
    ELSE LET m == CHOOSE x \in S : \A y \in S : x = y \/ StrLess(x, y)
         IN  <<m>> \o Sorted(S \ {m})

\* set(list)
SetOf(q) == {q[i] : i \in 1..Len(q)}

\* "/abs/", "/pdf/", "https://arxiv.org", ".pdf"
ABS == <<47, 97, 98, 115, 47>>
PDF == <<47, 112, 100, 102, 47>>
ARXIV == <<104, 116, 116, 112, 115, 58, 47, 47, 97, 114, 120, 105, 118, 46,
           111, 114, 103>>
DOTPDF == <<46, 112, 100, 102>>

\* String literals of the formatter.
INSPIRE == <<104, 116, 116, 112, 115, 58, 47, 47, 105, 110, 115, 112, 105,
    114, 101, 104, 101, 112, 46, 110, 101, 116, 47, 97, 117, 116, 104, 111,
    114, 115, 63, 115, 111, 114, 116, 61, 98, 101, 115, 116, 109, 97, 116,
    99, 104, 38, 115, 105, 122, 101, 61, 50, 53, 38, 112, 97, 103, 101, 61,
    49, 38, 113, 61>>
L_TITLE == <<84, 105, 116, 108, 101, 58, 45, 32>>
L_AUTHOR == <<65, 117, 116, 104, 111, 114, 58, 45, 32>>
L_COMMENT == <<67, 111, 109, 109, 101, 110, 116, 58, 45, 32>>
L_ABSTRACT == <<65, 98, 115, 116, 114, 97, 99, 116, 58, 45, 32>>
L_HTML == <<72, 84, 77, 76, 58, 45, 32, 60, 97, 32, 104, 114, 101, 102, 61,
    34>>
R_HTML == <<34, 62, 97, 114, 88, 105, 118, 60, 47, 97, 62>>
L_PDF == <<80, 68, 70, 58, 45, 32, 60, 97, 32, 104, 114, 101, 102, 61, 34>>
R_PDF == <<34, 62, 80, 68, 70, 60, 47, 97, 62>>
A_OPEN == <<60, 97, 32, 104, 114, 101, 102, 61, 34>>
A_MID == <<34, 62>>
A_CLOSE == <<60, 47, 97, 62>>
COMMA == <<44, 32>>
NL == <<10>>
ELLIPSIS == <<46, 46, 46>>
AMP == <<38, 97, 109, 112, 59>>
LT == <<38, 108, 116, 59>>
GT == <<38, 103, 116, 59>>
QUOT == <<38, 113, 117, 111, 116, 59>>
APOS == <<38, 35, 120, 50, 55, 59>>
ARXIV_PDF == <<104, 116, 116, 112, 115, 58, 47, 47, 97, 114, 120, 105, 118,
    46, 111, 114, 103, 47, 112, 100, 102, 47>>

(***************************************************************************)
(* Markup Extractor: the record built for one (dt, dd) pair.               *)
(***************************************************************************)
\* _extract_entries_after_header, lines 104-151.  abs_href and pdf_href are the
\* href of the first anchor of the dt whose href starts with "/abs/" or
\* "/pdf/" (None: no such anchor); the other arguments are the texts taken
\* from the dd.
MakeEntry(abs_href, pdf_href, title, authors, comments, abstract) ==
    LET abs_url == IF abs_href # None THEN ARXIV \o abs_href ELSE <<>>
        pdf_a   == IF pdf_href # None THEN ARXIV \o pdf_href ELSE <<>>
        pdf_url == IF pdf_a = <<>> /\ abs_url # <<>>
                   THEN ARXIV_PDF \o AfterLast(abs_url, ABS) \o DOTPDF
                   ELSE pdf_a
    IN  [id       |-> IF abs_url # <<>> /\ Contains(abs_url, ABS)
                      THEN AfterLast(abs_url, ABS) ELSE <<>>,
         title    |-> title,
         authors  |-> authors,
         comments |-> comments,
         abstract |-> abstract,
         abs_url  |-> abs_url,
         pdf_url  |-> pdf_url]

(***************************************************************************)
(* Formatter.                                                              *)
(***************************************************************************)
\* html.escape replaces each of & < > " ' by its entity.
EscapeChar(c) ==
    CASE c = 38 -> AMP
      [] c = 60 -> LT
      [] c = 62 -> GT
      [] c = 34 -> QUOT
      [] c = 39 -> APOS
      [] OTHER  -> <<c>>

\* html.escape(s) with quote=True: the characters are replaced one by one,
\* so the text is the two halves escaped and joined.
RECURSIVE escape(_)
escape(s) ==
    IF s = <<>> THEN <<>>
    ELSE IF Len(s) = 1 THEN EscapeChar(s[1])
    ELSE LET h == Len(s) \div 2
         IN  escape(SubSeq(s, 1, h)) \o escape(SubSeq(s, h + 1, Len(s)))

\* Upper-case hexadecimal digit of n in 0..15.
HexDigit(n) == IF n < 10 THEN 48 + n ELSE 55 + n

\* urllib.parse.quote(s) with safe="/", for code points below 128: letters,
\* digits and _ . - ~ / are kept, any other byte becomes %XX.
RECURSIVE quote(_)
quote(s) ==
    IF s = <<>> THEN <<>>
    ELSE LET c == Head(s)
             keep == \/ c \in 48..57 \/ c \in 65..90 \/ c \in 97..122
                     \/ c \in {95, 46, 45, 126, 47}
         IN  (IF keep THEN <<c>>
              ELSE <<37, HexDigit(c \div 16), HexDigit(c % 16)>>)
             \o quote(Tail(s))

\* _inspire_author_link
_inspire_author_link(name) == INSPIRE \o quote(<<34>> \o name \o <<34>>)

\* sep.join(parts)
RECURSIVE Join(_, _)
Join(parts, sep) ==
    IF parts = <<>> THEN <<>>
    ELSE IF Len(parts) = 1 THEN parts[1]
    ELSE parts[1] \o sep \o Join(Tail(parts), sep)

\* Telegram message budget and the length kept when it is exceeded.
MSG_LIMIT == 4000
MSG_KEEP == 3950

\* format_entry_html, lines 164-195: the text before the length test.
AssembledText(entry) ==
    LET title    == Strip(escape(entry.title))
        comments == Strip(escape(entry.comments))
        abstract == Strip(escape(entry.abstract))
        linked_authors ==
            [i \in 1..Len(entry.authors) |->
                A_OPEN \o _inspire_author_link(entry.authors[i]) \o A_MID
                \o escape(entry.authors[i]) \o A_CLOSE]
        authors_html == Join(linked_authors, COMMA)
        parts ==
            (IF title # <<>> THEN <<L_TITLE \o title>> ELSE <<>>)
            \o (IF authors_html # <<>> THEN <<L_AUTHOR \o authors_html>> ELSE <<>>)
            \o (IF comments # <<>> THEN <<L_COMMENT \o comments>> ELSE <<>>)
            \o (IF abstract # <<>> THEN <<L_ABSTRACT \o abstract>> ELSE <<>>)
            \o (IF entry.abs_url # <<>>
                THEN <<L_HTML \o entry.abs_url \o R_HTML>> ELSE <<>>)
            \o (IF entry.pdf_url # <<>>
                THEN <<L_PDF \o entry.pdf_url \o R_PDF>> ELSE <<>>)
    IN  Join(parts, NL)

\* Lines 198-200 with the text cut at the limit itself.
format_entry_html_cutAtLimit(entry) ==
    LET text == AssembledText(entry)
    IN  IF Len(text) > MSG_LIMIT THEN SubSeq(text, 1, MSG_LIMIT) \o ELLIPSIS
        ELSE text

\* format_entry_html
format_entry_html(entry) ==
    LET text == AssembledText(entry)
    IN  IF Len(text) > MSG_LIMIT THEN SubSeq(text, 1, MSG_KEEP) \o ELLIPSIS
        ELSE text

(***************************************************************************)
(* Identity & Dedup Store.                                                 *)
(***************************************************************************)
\* Python truthiness of an Optional[str]: neither None nor "".
Truthy(x) == x # None /\ x # <<>>

\* _extract_entry_id
_extract_entry_id(entry) ==
    LET candidate == Strip(entry.id)
    IN  IF candidate # <<>> THEN candidate
        ELSE IF Contains(entry.abs_url, ABS) THEN AfterLast(entry.abs_url, ABS)
        ELSE None

\* The state file.  kind is "missing" (STATE_PATH does not exist),
\* "malformed" (its content makes json.loads or set() raise) or "valid"
\* (a JSON object with the list posted_ids and last_run_iso).
NoFile == [kind |-> "missing", posted_ids |-> <<>>, last_run_iso |-> None]
BadFile == [kind |-> "malformed", posted_ids |-> <<>>, last_run_iso |-> None]

\* Variant of _load_state that starts every run from an empty set.
_load_state_fresh(f) == [posted |-> {}, last_run |-> None]

\* Variant of _load_state that does not read last_run_iso.
_load_state_notime(f) ==
    IF f.kind = "valid" THEN [posted |-> SetOf(f.posted_ids), last_run |-> None]
    ELSE [posted |-> {}, last_run |-> None]

\* _load_state: the pair (posted, last_run)
_load_state(f) ==
    IF f.kind = "missing" THEN [posted |-> {}, last_run |-> None]
    ELSE IF f.kind = "malformed" THEN [posted |-> {}, last_run |-> None]
    ELSE [posted |-> SetOf(f.posted_ids), last_run |-> f.last_run_iso]

\* Variant of LastN that keeps the head of the list: ids[:n].
LastN_head(ids, n) == IF Len(ids) > n THEN SubSeq(ids, 1, n) ELSE ids

\* ids[-n:] for n >= 1
LastN(ids, n) == IF Len(ids) > n THEN SubSeq(ids, Len(ids) - n + 1, Len(ids)) ELSE ids

\* Variant of SavedIds without the truncation of lines 37-38.
SavedIds_nocap(ids_set) == Sorted(ids_set)

\* The list _save_state writes as "posted_ids" (lines 36-38).
SavedIds(ids_set) ==
    LET ids == Sorted(ids_set)
    IN  IF Len(ids) > MAX_TRACKED_IDS THEN LastN(ids, MAX_TRACKED_IDS) ELSE ids

\* datetime.isoformat() of the instant t: a string that orders as t does.
isoformat(t) == <<t>>

\* _save_state: the content of the state file after the call
_save_state(ids_set, last_run_iso) ==
    [kind |-> "valid", posted_ids |-> SavedIds(ids_set),
     last_run_iso |-> last_run_iso]

(***************************************************************************)
(* Delivery primitive.                                                     *)
(***************************************************************************)
\* Number of POST attempts of send_message (range(6)).
MaxAttempts == 6
\* HTTP statuses of the model: success, rate limit, server error.
HTTP_OK == 200
HTTP_TOO_MANY == 429
HTTP_ERROR == 500

\* The answers the Telegram API gives to the successive POSTs of one call:
\* some number of 429 answers followed by answers of one other status.
ResponseScripts ==
    {[i \in 1..MaxAttempts |-> IF i <= k THEN HTTP_TOO_MANY ELSE s] :
        k \in 0..MaxAttempts, s \in {HTTP_OK, HTTP_ERROR}}

\* send_message, from attempt i on: the loop of lines 54-65 and, once the
\* six attempts are used up, the raise_for_status of line 66 on the last
\* (429) response.
RECURSIVE SendFrom(_, _)
SendFrom(resps, i) ==
    IF i > MaxAttempts THEN [raised |-> TRUE, posts |-> MaxAttempts]
    ELSE IF resps[i] = HTTP_TOO_MANY THEN SendFrom(resps, i + 1)
    ELSE IF resps[i] >= 400 THEN [raised |-> TRUE, posts |-> i]
    ELSE [raised |-> FALSE, posts |-> i]

\* send_message
send_message(resps) == SendFrom(resps, 1)

(***************************************************************************)
(* Inputs: the documents a fetch can return and the state files a          *)
(* behaviour can start with.                                               *)
(***************************************************************************)
\* "T", "A"
TitleT == <<84>>
AuthorA == <<65>>

\* The records of the (dt, dd) pairs a document is made of.  The href of
\* the abstract anchor is "/abs/1", "/abs/1 ", "/abs/2", "/abs/" or "/abs/ ",
\* or the dt has no such anchor; the last record has nothing to format.
Entries ==
    { MakeEntry(ABS \o <<49>>, None, TitleT, <<AuthorA>>, <<>>, <<>>),
      MakeEntry(ABS \o <<49, 32>>, PDF \o <<49>>, TitleT, <<>>, <<>>, <<>>),
      MakeEntry(ABS \o <<50>>, None, TitleT, <<>>, <<>>, <<>>),
      MakeEntry(ABS, None, TitleT, <<>>, <<>>, <<>>),
      MakeEntry(ABS \o <<32>>, None, TitleT, <<>>, <<>>, <<>>),
      MakeEntry(None, None, TitleT, <<AuthorA>>, <<>>, <<>>),
      MakeEntry(None, None, <<32>>, <<>>, <<>>, <<>>) }

\* The entry sequences scrape_hep_th_new can return.
Docs == UNION {[1..n -> Entries] : n \in 0..MaxEntries}

\* Ids of earlier runs: "9", "10", "11", "12", "13", "14".
OldIds == {<<57>>, <<49, 48>>, <<49, 49>>, <<49, 50>>, <<49, 51>>, <<49, 52>>}

\* A store that holds as many ids as _save_state keeps.
FullIds == SubSeq(Sorted(OldIds), 1, MAX_TRACKED_IDS)

\* State files at the start of a behaviour: none, an unreadable one, and
\* records as _save_state writes them (sorted, at most MAX_TRACKED_IDS ids).
InitFiles ==
    { NoFile, BadFile,
      [kind |-> "valid", posted_ids |-> <<>>, last_run_iso |-> isoformat(0)],
      [kind |-> "valid", posted_ids |-> << <<49>> >>, last_run_iso |-> isoformat(0)],
      [kind |-> "valid", posted_ids |-> FullIds, last_run_iso |-> isoformat(0)] }

(***************************************************************************)
(* The variables of a specification that is not at work.                   *)
(***************************************************************************)
\* _extract_entries_after_header has not been called.
ExtIdle ==
    [pc |-> "idle", nodes |-> <<>>, pos |-> 0, pending_dt |-> 0,
     entries |-> <<>>, pairs |-> <<>>]

\* format_entry_html has not been called.
FmtIdle == [pc |-> "idle", entry |-> None, text |-> <<>>]

\* send_message has not been called.
SndIdle ==
    [pc |-> "idle", attempt |-> 0, backoff |-> 0, sleeps |-> <<>>,
     statuses |-> <<>>, posts |-> 0, outcome |-> "none"]

\* No overlapping runs.
OvlIdle == [pc |-> "idle", file |-> NoFile, writers |-> <<>>, runs |-> <<>>]

\* run_daemon has not been called.
DmnIdle ==
    [pc |-> "idle", hour |-> 0, delay |-> 0, raised |-> "none",
     notice |-> "none"]

AuxIdle ==
    /\ ext = ExtIdle
    /\ fmt = FmtIdle
    /\ snd = SndIdle
    /\ ovl = OvlIdle
    /\ dmn = DmnIdle

(***************************************************************************)
(* Delivery Loop: run_once_and_post.                                       *)
(***************************************************************************)
Init ==
    /\ file \in InitFiles
    /\ clock = 0
    /\ pc = "idle"
    /\ entries = <<>>
    /\ idx = 1
    /\ posted_ids = {}
    /\ newly_posted = <<>>
    /\ printed = None
    /\ sent = <<>>
    /\ loaded = {}
    /\ fileAtStart = file
    /\ prev = {}
    /\ recorded = {}
    /\ evicted = {}
    /\ AuxIdle

\* The run is not in progress: never started, returned or raised.
Idle == pc \in {"idle", "done", "failed"}

\* Variant of Start without the try/except of lines 25-31: the exception a
\* malformed state file raises leaves run_once_and_post.
Start_strict ==
    /\ Idle
    /\ clock < MaxRuns
    /\ \E doc \in Docs :
        /\ entries' = doc
        /\ prev' = IF pc = "failed" /\ doc = entries THEN SetOf(sent) ELSE {}
    /\ clock' = clock + 1
    /\ posted_ids' = _load_state(file).posted
    /\ loaded' = _load_state(file).posted
    /\ fileAtStart' = file
    /\ newly_posted' = <<>>
    /\ sent' = <<>>
    /\ idx' = 1
    /\ printed' = None
    /\ pc' = IF file.kind = "malformed" THEN "failed" ELSE "loop"
    /\ UNCHANGED <<file, recorded, evicted>>
    /\ UNCHANGED aux

\* Lines 236-238: the fetch succeeds, the state is loaded.
Start ==
    /\ Idle
    /\ clock < MaxRuns
    /\ \E doc \in Docs :
        /\ entries' = doc
        /\ prev' = IF pc = "failed" /\ doc = entries THEN SetOf(sent) ELSE {}
    /\ clock' = clock + 1
    /\ posted_ids' = _load_state(file).posted
    /\ loaded' = _load_state(file).posted
    /\ fileAtStart' = file
    /\ newly_posted' = <<>>
    /\ sent' = <<>>
    /\ idx' = 1
    /\ printed' = None
    /\ pc' = "loop"
    /\ UNCHANGED <<file, recorded, evicted>>
    /\ UNCHANGED aux

\* Line 236: scrape_hep_th_new raises (network error, error status, no bs4).
StartFail ==
    /\ Idle
    /\ clock < MaxRuns
    /\ clock' = clock + 1
    /\ entries' = <<>>
    /\ posted_ids' = {}
    /\ loaded' = {}
    /\ fileAtStart' = file
    /\ newly_posted' = <<>>
    /\ sent' = <<>>
    /\ idx' = 1
    /\ printed' = None
    /\ prev' = {}
    /\ pc' = "failed"
    /\ UNCHANGED <<file, recorded, evicted>>
    /\ UNCHANGED aux

\* The for loop is at an entry.
AtEntry == pc = "loop" /\ idx <= Len(entries)

\* Variant of AlreadyPosted that looks the id up in the state file only.
AlreadyPosted_file(entry, ids) ==
    Truthy(_extract_entry_id(entry))
    /\ _extract_entry_id(entry) \in SetOf(file.posted_ids)

\* Line 242: the entry has an id and the id is in posted_ids.
AlreadyPosted(entry, ids) ==
    Truthy(_extract_entry_id(entry)) /\ _extract_entry_id(entry) \in ids

\* Variant of ToSend without the test of line 246.
ToSend_nofmt(entry, ids) == ~AlreadyPosted(entry, ids)

\* Lines 241-247: the entry passes both filters and is handed to send_message.
ToSend(entry, ids) ==
    ~AlreadyPosted(entry, ids) /\ format_entry_html(entry) # <<>>

\* Lines 242-243: continue.
SkipPosted ==
    /\ AtEntry
    /\ AlreadyPosted(entries[idx], posted_ids)
    /\ idx' = idx + 1
    /\ UNCHANGED <<file, clock, pc, entries, posted_ids, newly_posted, printed,
                   sent, loaded, fileAtStart, prev, recorded, evicted>>
    /\ UNCHANGED aux

\* Lines 245-247: continue.
SkipEmpty ==
    /\ AtEntry
    /\ ~AlreadyPosted(entries[idx], posted_ids)
    /\ format_entry_html(entries[idx]) = <<>>
    /\ idx' = idx + 1
    /\ UNCHANGED <<file, clock, pc, entries, posted_ids, newly_posted, printed,
                   sent, loaded, fileAtStart, prev, recorded, evicted>>
    /\ UNCHANGED aux

\* Variant of Record that adds entry_id or "", as line 250 appends it.
Record_blank(entry_id, ids) ==
    ids \cup {IF Truthy(entry_id) THEN entry_id ELSE <<>>}

\* Variant of Record that never adds to the working set.
Record_noadd(entry_id, ids) == ids

\* Lines 250-252: what the loop records once send_message has returned.
Record(entry_id, ids) == IF Truthy(entry_id) THEN ids \cup {entry_id} ELSE ids

\* Lines 249-255: send_message returns.
SendOk ==
    /\ AtEntry
    /\ ToSend(entries[idx], posted_ids)
    /\ \E resps \in ResponseScripts : ~send_message(resps).raised
    /\ LET entry_id == _extract_entry_id(entries[idx])
       IN  /\ newly_posted' =
                Append(newly_posted, IF Truthy(entry_id) THEN entry_id ELSE <<>>)
           /\ posted_ids' = Record(entry_id, posted_ids)
    /\ sent' = Append(sent, idx)
    /\ idx' = idx + 1
    /\ UNCHANGED <<file, clock, pc, entries, printed, loaded, fileAtStart, prev,
                   recorded, evicted>>
    /\ UNCHANGED aux

\* Variant of SendFail in which the id is recorded before send_message is
\* called.
SendFail_records ==
    /\ AtEntry
    /\ ToSend(entries[idx], posted_ids)
    /\ \E resps \in ResponseScripts : send_message(resps).raised
    /\ pc' = "failed"
    /\ posted_ids' = Record(_extract_entry_id(entries[idx]), posted_ids)
    /\ UNCHANGED <<file, clock, entries, idx, newly_posted, printed,
                   sent, loaded, fileAtStart, prev, recorded, evicted>>
    /\ UNCHANGED aux

\* Variant of SendFail that saves what the run has recorded before the
\* exception leaves run_once_and_post.
SendFail_saves ==
    /\ AtEntry
    /\ ToSend(entries[idx], posted_ids)
    /\ \E resps \in ResponseScripts : send_message(resps).raised
    /\ pc' = "failed"
    /\ file' = _save_state(posted_ids, isoformat(clock))
    /\ UNCHANGED <<clock, entries, idx, posted_ids, newly_posted, printed,
                   sent, loaded, fileAtStart, prev, recorded, evicted>>
    /\ UNCHANGED aux

\* Line 249: send_message raises; the exception leaves run_once_and_post.
SendFail ==
    /\ AtEntry
    /\ ToSend(entries[idx], posted_ids)
    /\ \E resps \in ResponseScripts : send_message(resps).raised
    /\ pc' = "failed"
    /\ UNCHANGED <<file, clock, entries, idx, posted_ids, newly_posted, printed,
                   sent, loaded, fileAtStart, prev, recorded, evicted>>
    /\ UNCHANGED aux

\* len([i for i in newly_posted if i])
RECURSIVE CountTruthy(_)
CountTruthy(q) ==
    IF q = <<>> THEN 0
    ELSE (IF Truthy(Head(q)) THEN 1 ELSE 0) + CountTruthy(Tail(q))

\* Line 259: the number printed after a save.
PostedCount(q) == CountTruthy(q)

\* Variant of ShouldSave that saves at the end of every run.
ShouldSave_always(q) == TRUE

\* Variant of ShouldSave that saves only when an id was recorded.
ShouldSave_ids(q) == \E i \in 1..Len(q) : Truthy(q[i])

\* Line 257: the state is saved.
ShouldSave(q) == q # <<>>

\* Lines 257-261: the loop is over.
Finish ==
    /\ pc = "loop"
    /\ idx > Len(entries)
    /\ IF ShouldSave(newly_posted)
       THEN /\ file' = _save_state(posted_ids, isoformat(clock))
            /\ printed' = [kind |-> "posted", n |-> PostedCount(newly_posted)]
            /\ recorded' = recorded \cup (SetOf(newly_posted) \ {<<>>})
            /\ evicted' = (evicted \ SetOf(newly_posted))
                           \cup (posted_ids \ SetOf(file'.posted_ids))
       ELSE /\ file' = file
            /\ printed' = [kind |-> "none", n |-> 0]
            /\ UNCHANGED <<recorded, evicted>>
    /\ pc' = "done"
    /\ UNCHANGED <<clock, entries, idx, posted_ids, newly_posted, sent, loaded,
                   fileAtStart, prev>>
    /\ UNCHANGED aux

Next ==
    \/ Start
    \/ StartFail
    \/ SkipPosted
    \/ SkipEmpty
    \/ SendOk
    \/ SendFail
    \/ Finish

Spec == Init /\ [][Next]_vars

(***************************************************************************)
(* Markup Extractor: _iter_new_submission_nodes and the pairing loop of    *)
(* _extract_entries_after_header.  A document is the sibling chain that    *)
(* holds the section headers; a node is an h3 (new: its text contains      *)
(* "New submissions"), a dt (href: the href of its "/abs/" anchor, None    *)
(* without one), a dd (title: the text of its title block) or anything     *)
(* else ("p": another tag or a text node).                                 *)
(***************************************************************************)
MaxNodes == 5

H3(new) == [name |-> "h3", new |-> new, href |-> None, title |-> <<>>]
Dt(href) == [name |-> "dt", new |-> FALSE, href |-> href, title |-> <<>>]
Dd(title) == [name |-> "dd", new |-> FALSE, href |-> None, title |-> title]
OtherNode == [name |-> "p", new |-> FALSE, href |-> None, title |-> <<>>]

NodeKinds ==
    {H3(TRUE), H3(FALSE), Dt(None), Dt(ABS \o <<49>>), Dd(TitleT), OtherNode}

Soups == UNION {[1..n -> NodeKinds] : n \in 0..MaxNodes}

\* soup.find_all("h3") in document order, first one whose text matches; 0
\* when no header matches.
FirstNewH3(nodes) ==
    LET hs == {i \in 1..Len(nodes) : nodes[i].name = "h3" /\ nodes[i].new}
    IN  IF hs = {} THEN 0 ELSE CHOOSE i \in hs : \A j \in hs : i <= j

\* run_once_and_post has not been called.
RunIdle ==
    /\ file = NoFile
    /\ clock = 0
    /\ pc = "idle"
    /\ entries = <<>>
    /\ idx = 1
    /\ posted_ids = {}
    /\ newly_posted = <<>>
    /\ printed = None
    /\ sent = <<>>
    /\ loaded = {}
    /\ fileAtStart = NoFile
    /\ prev = {}
    /\ recorded = {}
    /\ evicted = {}

ExtInit ==
    /\ \E s \in Soups : ext = [ExtIdle EXCEPT !.nodes = s]
    /\ fmt = FmtIdle
    /\ snd = SndIdle
    /\ ovl = OvlIdle
    /\ dmn = DmnIdle
    /\ RunIdle

ExtNode == ext.nodes[ext.pos]
ExtWalking == ext.pc = "walk" /\ ext.pos <= Len(ext.nodes)

\* Lines 80-82 and 95-96: the header is looked up and the walk starts at its
\* next sibling; without a matching header nothing is yielded.
XFind ==
    /\ ext.pc = "idle"
    /\ LET h == FirstNewH3(ext.nodes)
       IN  ext' = IF h = 0
                  THEN [ext EXCEPT !.pc = "done"]
                  ELSE [ext EXCEPT !.pc = "walk", !.pos = h + 1]
    /\ UNCHANGED <<runVars, fmt, snd, ovl, dmn>>

\* Lines 98-99: a dt becomes the pending descriptor.
XDt ==
    /\ ExtWalking
    /\ ExtNode.name = "dt"
    /\ ext' = [ext EXCEPT !.pending_dt = ext.pos, !.pos = ext.pos + 1]
    /\ UNCHANGED <<runVars, fmt, snd, ovl, dmn>>

\* Lines 100-151 with the pending descriptor left in place.
XDd_keeps ==
    /\ ExtWalking
    /\ ExtNode.name = "dd"
    /\ ext.pending_dt # 0
    /\ ext' = [ext EXCEPT
                 !.entries = Append(ext.entries,
                     MakeEntry(ext.nodes[ext.pending_dt].href, None,
                               ExtNode.title, <<>>, <<>>, <<>>)),
                 !.pairs = Append(ext.pairs, <<ext.pending_dt, ext.pos>>),
                 !.pos = ext.pos + 1]
    /\ UNCHANGED <<runVars, fmt, snd, ovl, dmn>>

\* Lines 100-151: a dd with a pending dt makes one entry and clears the
\* pending descriptor.
XDd ==
    /\ ExtWalking
    /\ ExtNode.name = "dd"
    /\ ext.pending_dt # 0
    /\ ext' = [ext EXCEPT
                 !.entries = Append(ext.entries,
                     MakeEntry(ext.nodes[ext.pending_dt].href, None,
                               ExtNode.title, <<>>, <<>>, <<>>)),
                 !.pairs = Append(ext.pairs, <<ext.pending_dt, ext.pos>>),
                 !.pending_dt = 0,
                 !.pos = ext.pos + 1]
    /\ UNCHANGED <<runVars, fmt, snd, ovl, dmn>>

\* Lines 87-89 and 100: a node that is neither dt, dd nor h3 is not yielded,
\* and a dd without a pending dt matches neither branch.
XSkip ==
    /\ ExtWalking
    /\ \/ ExtNode.name \notin {"h3", "dt", "dd"}
       \/ ExtNode.name = "dd" /\ ext.pending_dt = 0
    /\ ext' = [ext EXCEPT !.pos = ext.pos + 1]
    /\ UNCHANGED <<runVars, fmt, snd, ovl, dmn>>

\* Lines 83, 85-86 and 152: the walk ends at the next h3 or at the end of the
\* sibling chain, and the entries are returned.
XStop ==
    /\ ext.pc = "walk"
    /\ \/ ext.pos > Len(ext.nodes)
       \/ ExtWalking /\ ExtNode.name = "h3"
    /\ ext' = [ext EXCEPT !.pc = "done"]
    /\ UNCHANGED <<runVars, fmt, snd, ovl, dmn>>

ExtNext ==
    \/ XFind
    \/ XDt
    \/ XDd
    \/ XSkip
    \/ XStop

SpecExtract == ExtInit /\ [][ExtNext]_vars

(***************************************************************************)
(* Delivery primitive, one POST at a time: send_message.  snd.statuses are *)
(* the status codes of the responses received so far, snd.sleeps the       *)
(* arguments of time.sleep, snd.outcome the way the call ended.            *)
(***************************************************************************)
\* backoff = 1.0 (line 53) and its ceiling (line 62).
BackoffStart == 1
BackoffMax == 8

\* The retry_after a 429 response carries: None (absent, or a body that is
\* not such a JSON object), or <<n>> for the number n.
RetryAfters == {None, <<0>>, <<3>>, <<-2>>}

\* retry_after or backoff
SleepTime(retry_after, backoff) ==
    IF retry_after = None \/ retry_after[1] = 0 THEN backoff
    ELSE retry_after[1]

Min(a, b) == IF a <= b THEN a ELSE b

SndInit ==
    /\ snd = [pc |-> "loop", attempt |-> 0, backoff |-> BackoffStart,
              sleeps |-> <<>>, statuses |-> <<>>, posts |-> 0,
              outcome |-> "none"]
    /\ ext = ExtIdle
    /\ fmt = FmtIdle
    /\ ovl = OvlIdle
    /\ dmn = DmnIdle
    /\ RunIdle

\* for _ in range(6): another iteration is left.
SndPosting == snd.pc = "loop" /\ snd.attempt < MaxAttempts

\* Line 55: requests.post raises (no connection, timeout).
SPostRaises ==
    /\ SndPosting
    /\ snd' = [snd EXCEPT !.pc = "raised", !.posts = snd.posts + 1,
                          !.outcome = "post_raised"]
    /\ UNCHANGED <<runVars, ext, fmt, ovl, dmn>>

\* Lines 56-63: a 429 is answered by a sleep, a doubled backoff and the next
\* iteration.
SPostRetry ==
    /\ SndPosting
    /\ \E ra \in RetryAfters :
          /\ SleepTime(ra, snd.backoff) >= 0
          /\ snd' = [snd EXCEPT
                !.attempt = snd.attempt + 1,
                !.posts = snd.posts + 1,
                !.statuses = Append(snd.statuses, HTTP_TOO_MANY),
                !.sleeps = Append(snd.sleeps, SleepTime(ra, snd.backoff)),
                !.backoff = Min(snd.backoff * 2, BackoffMax)]
    /\ UNCHANGED <<runVars, ext, fmt, ovl, dmn>>

\* Line 61: time.sleep raises ValueError for a negative retry_after.
SSleepRaises ==
    /\ SndPosting
    /\ \E ra \in RetryAfters :
          /\ SleepTime(ra, snd.backoff) < 0
          /\ snd' = [snd EXCEPT
                !.pc = "raised",
                !.posts = snd.posts + 1,
                !.statuses = Append(snd.statuses, HTTP_TOO_MANY),
                !.outcome = "sleep_raised"]
    /\ UNCHANGED <<runVars, ext, fmt, ovl, dmn>>

\* An error status answered by another iteration.
SPostError_retries ==
    /\ SndPosting
    /\ snd' = [snd EXCEPT !.attempt = snd.attempt + 1,
                          !.posts = snd.posts + 1,
                          !.statuses = Append(snd.statuses, HTTP_ERROR)]
    /\ UNCHANGED <<runVars, ext, fmt, ovl, dmn>>

\* Line 64: raise_for_status raises for an error status other than 429.
SPostError ==
    /\ SndPosting
    /\ snd' = [snd EXCEPT !.pc = "raised", !.posts = snd.posts + 1,
                          !.statuses = Append(snd.statuses, HTTP_ERROR),
                          !.outcome = "http_error"]
    /\ UNCHANGED <<runVars, ext, fmt, ovl, dmn>>

\* Lines 64-65: a status that is no error and a body that is JSON.
SPostOk ==
    /\ SndPosting
    /\ snd' = [snd EXCEPT !.pc = "returned", !.posts = snd.posts + 1,
                          !.statuses = Append(snd.statuses, HTTP_OK),
                          !.outcome = "returned"]
    /\ UNCHANGED <<runVars, ext, fmt, ovl, dmn>>

\* Lines 64-65: a status that is no error and a body resp.json() cannot
\* decode.
SPostBadBody ==
    /\ SndPosting
    /\ snd' = [snd EXCEPT !.pc = "raised", !.posts = snd.posts + 1,
                          !.statuses = Append(snd.statuses, HTTP_OK),
                          !.outcome = "bad_body"]
    /\ UNCHANGED <<runVars, ext, fmt, ovl, dmn>>

\* Line 66: the loop is used up and raise_for_status raises for the last
\* response, a 429.
SExhausted ==
    /\ snd.pc = "loop"
    /\ snd.attempt = MaxAttempts
    /\ snd' = [snd EXCEPT !.pc = "raised", !.outcome = "exhausted"]
    /\ UNCHANGED <<runVars, ext, fmt, ovl, dmn>>

SndNext ==
    \/ SPostRaises
    \/ SPostRetry
    \/ SSleepRaises
    \/ SPostError
    \/ SPostOk
    \/ SPostBadBody
    \/ SExhausted

\* The statements of one call run one after another: a step that can be
\* taken is taken.
SpecSend == SndInit /\ [][SndNext]_vars /\ WF_vars(SndNext)

(***************************************************************************)
(* Formatter at the message budget: format_entry_html on entries whose     *)
(* assembled text is as long as the limit, give or take MaxPad characters  *)
(* and the lines a title and the links add.                                *)
(***************************************************************************)
MaxPad == 6

\* An abstract of k ampersands followed by n letters "a".
AbstractOf(k, n) == [i \in 1..(k + n) |-> IF i <= k THEN 38 ELSE 97]

FmtEntries ==
    {MakeEntry(href, None, title, <<>>, <<>>,
               AbstractOf(k, MSG_LIMIT - Len(L_ABSTRACT) + d)) :
        href \in {None, ABS \o <<49>>}, title \in {<<>>, TitleT},
        k \in {0, 1}, d \in (0 - MaxPad)..MaxPad}

FmtInit ==
    /\ \E e \in FmtEntries : fmt = [FmtIdle EXCEPT !.entry = e]
    /\ ext = ExtIdle
    /\ snd = SndIdle
    /\ ovl = OvlIdle
    /\ dmn = DmnIdle
    /\ RunIdle

\* msg = format_entry_html(entry)
FFormat ==
    /\ fmt.pc = "idle"
    /\ fmt' = [fmt EXCEPT !.pc = "done", !.text = format_entry_html(fmt.entry)]
    /\ UNCHANGED <<runVars, ext, snd, ovl, dmn>>

FmtNext == FFormat

SpecFormat == FmtInit /\ [][FmtNext]_vars

(***************************************************************************)
(* Overlapping runs: run_once_and_post called while another call is under  *)
(* way (two processes on one state file), and a third call after both.     *)
(* Each run has its own locals; ovl.file is the state file they share and  *)
(* ovl.writers the runs that saved, in the order of their saves.           *)
(***************************************************************************)
MaxOvlEntries == 2

OvlRuns == {1, 2, 3}

\* Entries with the hrefs "/abs/1" and "/abs/2".
OvlEntries ==
    { MakeEntry(ABS \o <<49>>, None, TitleT, <<>>, <<>>, <<>>),
      MakeEntry(ABS \o <<50>>, None, TitleT, <<>>, <<>>, <<>>) }

OvlDocs == UNION {[1..n -> OvlEntries] : n \in 0..MaxOvlEntries}

OvlRunIdle ==
    [pc |-> "idle", entries |-> <<>>, idx |-> 1, posted_ids |-> {},
     loaded |-> {}, hasLoaded |-> FALSE, newly_posted |-> <<>>,
     sent |-> <<>>, savesAtFetch |-> 0, savesAtLoad |-> 0]

OvlInit ==
    /\ \E f \in {NoFile,
                 [kind |-> "valid", posted_ids |-> <<<<49>>>>,
                  last_run_iso |-> isoformat(0)]} :
          ovl = [pc |-> "run", file |-> f, writers |-> <<>>,
                 runs |-> [r \in OvlRuns |-> OvlRunIdle]]
    /\ ext = ExtIdle
    /\ fmt = FmtIdle
    /\ snd = SndIdle
    /\ dmn = DmnIdle
    /\ RunIdle

OvlEnded(r) == ovl.runs[r].pc \in {"done", "failed"}

\* Run 1 is the call made first, run 3 a call made after runs 1 and 2 have
\* ended.
OvlMayStart(r) ==
    /\ ovl.runs[r].pc = "idle"
    /\ r = 2 => ovl.runs[1].pc # "idle"
    /\ r = 3 => OvlEnded(1) /\ OvlEnded(2)

\* Line 236: scrape_hep_th_new returns the entries of the page.
OFetch(r) ==
    /\ OvlMayStart(r)
    /\ \E doc \in OvlDocs :
          ovl' = [ovl EXCEPT !.runs[r].pc = "load",
                             !.runs[r].entries = doc,
                             !.runs[r].savesAtFetch = Len(ovl.writers)]
    /\ UNCHANGED <<runVars, ext, fmt, snd, dmn>>

\* Line 236: scrape_hep_th_new raises.
OFetchFail(r) ==
    /\ OvlMayStart(r)
    /\ ovl' = [ovl EXCEPT !.runs[r].pc = "failed",
                          !.runs[r].savesAtFetch = Len(ovl.writers)]
    /\ UNCHANGED <<runVars, ext, fmt, snd, dmn>>

\* Lines 237-238: the working set is read from the state file.
OLoad(r) ==
    /\ ovl.runs[r].pc = "load"
    /\ ovl' = [ovl EXCEPT !.runs[r].pc = "loop",
                          !.runs[r].posted_ids = _load_state(ovl.file).posted,
                          !.runs[r].loaded = _load_state(ovl.file).posted,
                          !.runs[r].hasLoaded = TRUE,
                          !.runs[r].savesAtLoad = Len(ovl.writers)]
    /\ UNCHANGED <<runVars, ext, fmt, snd, dmn>>

OvlAtEntry(r) ==
    ovl.runs[r].pc = "loop" /\ ovl.runs[r].idx <= Len(ovl.runs[r].entries)
OvlEntry(r) == ovl.runs[r].entries[ovl.runs[r].idx]

\* Lines 242-247: continue.
OSkip(r) ==
    /\ OvlAtEntry(r)
    /\ ~ToSend(OvlEntry(r), ovl.runs[r].posted_ids)
    /\ ovl' = [ovl EXCEPT !.runs[r].idx = ovl.runs[r].idx + 1]
    /\ UNCHANGED <<runVars, ext, fmt, snd, dmn>>

\* Variant of OSendOk with one working set for all runs: the id is added to
\* the set of every run.
OSendOk_shared(r) ==
    /\ OvlAtEntry(r)
    /\ ToSend(OvlEntry(r), ovl.runs[r].posted_ids)
    /\ LET entry_id == _extract_entry_id(OvlEntry(r))
       IN  ovl' = [ovl EXCEPT
              !.runs = [q \in OvlRuns |->
                  IF q = r
                  THEN [ovl.runs[q] EXCEPT
                          !.newly_posted = Append(ovl.runs[q].newly_posted,
                              IF Truthy(entry_id) THEN entry_id ELSE <<>>),
                          !.posted_ids = Record(entry_id, ovl.runs[q].posted_ids),
                          !.sent = Append(ovl.runs[q].sent, entry_id),
                          !.idx = ovl.runs[q].idx + 1]
                  ELSE [ovl.runs[q] EXCEPT
                          !.posted_ids =
                              Record(entry_id, ovl.runs[q].posted_ids)]]]
    /\ UNCHANGED <<runVars, ext, fmt, snd, dmn>>

\* Lines 249-255: send_message returns and the id is recorded in the run's
\* own working set.
OSendOk(r) ==
    /\ OvlAtEntry(r)
    /\ ToSend(OvlEntry(r), ovl.runs[r].posted_ids)
    /\ \E resps \in ResponseScripts : ~send_message(resps).raised
    /\ LET entry_id == _extract_entry_id(OvlEntry(r))
       IN  ovl' = [ovl EXCEPT
              !.runs[r].newly_posted = Append(ovl.runs[r].newly_posted,
                  IF Truthy(entry_id) THEN entry_id ELSE <<>>),
              !.runs[r].posted_ids = Record(entry_id, ovl.runs[r].posted_ids),
              !.runs[r].sent = Append(ovl.runs[r].sent, entry_id),
              !.runs[r].idx = ovl.runs[r].idx + 1]
    /\ UNCHANGED <<runVars, ext, fmt, snd, dmn>>

\* Line 249: send_message raises and the exception leaves the run.
OSendFail(r) ==
    /\ OvlAtEntry(r)
    /\ ToSend(OvlEntry(r), ovl.runs[r].posted_ids)
    /\ \E resps \in ResponseScripts : send_message(resps).raised
    /\ ovl' = [ovl EXCEPT !.runs[r].pc = "failed"]
    /\ UNCHANGED <<runVars, ext, fmt, snd, dmn>>

\* Variant of OFinish that reads the file again and writes the union of its
\* ids and the run's.
OFinish_merges(r) ==
    /\ ovl.runs[r].pc = "loop"
    /\ ovl.runs[r].idx > Len(ovl.runs[r].entries)
    /\ ovl' = IF ShouldSave(ovl.runs[r].newly_posted)
              THEN [ovl EXCEPT
                      !.runs[r].pc = "done",
                      !.file = _save_state(
                          ovl.runs[r].posted_ids
                              \cup _load_state(ovl.file).posted,
                          isoformat(Len(ovl.writers) + 1)),
                      !.writers = Append(ovl.writers, r)]
              ELSE [ovl EXCEPT !.runs[r].pc = "done"]
    /\ UNCHANGED <<runVars, ext, fmt, snd, dmn>>

\* Lines 257-261: the run that sent something overwrites the state file with
\* its own working set.
OFinish(r) ==
    /\ ovl.runs[r].pc = "loop"
    /\ ovl.runs[r].idx > Len(ovl.runs[r].entries)
    /\ ovl' = IF ShouldSave(ovl.runs[r].newly_posted)
              THEN [ovl EXCEPT
                      !.runs[r].pc = "done",
                      !.file = _save_state(ovl.runs[r].posted_ids,
                                           isoformat(Len(ovl.writers) + 1)),
                      !.writers = Append(ovl.writers, r)]
              ELSE [ovl EXCEPT !.runs[r].pc = "done"]
    /\ UNCHANGED <<runVars, ext, fmt, snd, dmn>>

OvlNext ==
    \E r \in OvlRuns :
        \/ OFetch(r)
        \/ OFetchFail(r)
        \/ OLoad(r)
        \/ OSkip(r)
        \/ OSendOk(r)
        \/ OSendFail(r)
        \/ OFinish(r)

SpecOverlap == OvlInit /\ [][OvlNext]_vars

(***************************************************************************)
(* Daemon: run_daemon.  Time is the local hour of the day; dmn.raised is   *)
(* the way the last run ended and dmn.notice what became of its error      *)
(* notification.                                                           *)
(***************************************************************************)
\* target = now_local.replace(hour=8, ...), a day later when it has passed.
TargetHour == 8
HoursPerDay == 24
\* delay = 3600, in hours.
FallbackDelay == 1

\* seconds_until_next_8am_cet, in hours, at the local hour h.
seconds_until_next_8am_cet(h) ==
    IF h >= TargetHour THEN TargetHour + HoursPerDay - h ELSE TargetHour - h

DmnInit ==
    /\ \E h \in 0..(HoursPerDay - 1) :
          dmn = [pc |-> "delay", hour |-> h, delay |-> 0, raised |-> "none",
                 notice |-> "none"]
    /\ ext = ExtIdle
    /\ fmt = FmtIdle
    /\ snd = SndIdle
    /\ ovl = OvlIdle
    /\ RunIdle

\* Lines 312-313: the delay until the next 8 o'clock.
DDelay ==
    /\ dmn.pc = "delay"
    /\ dmn' = [dmn EXCEPT !.pc = "sleep",
                          !.delay = seconds_until_next_8am_cet(dmn.hour)]
    /\ UNCHANGED <<runVars, ext, fmt, snd, ovl>>

\* Lines 314-316: the computation raises and the daemon waits one hour.
DDelayFallback ==
    /\ dmn.pc = "delay"
    /\ dmn' = [dmn EXCEPT !.pc = "sleep", !.delay = FallbackDelay]
    /\ UNCHANGED <<runVars, ext, fmt, snd, ovl>>

\* Line 317: time.sleep(max(1, delay)) returns and the run is started.
DSleep ==
    /\ dmn.pc = "sleep"
    /\ dmn' = [dmn EXCEPT !.pc = "run",
                          !.hour = (dmn.hour + dmn.delay) % HoursPerDay]
    /\ UNCHANGED <<runVars, ext, fmt, snd, ovl>>

\* Lines 318-319: run_once_and_post returns.
DRunOk ==
    /\ dmn.pc = "run"
    /\ dmn' = [dmn EXCEPT !.pc = "pause", !.raised = "none",
                          !.notice = "none"]
    /\ UNCHANGED <<runVars, ext, fmt, snd, ovl>>

\* Lines 318-320: run_once_and_post raises, in the fetch or in a send.
DRunFail ==
    /\ dmn.pc = "run"
    /\ \E kind \in {"fetch", "send"} :
          dmn' = [dmn EXCEPT !.pc = "notify", !.raised = kind,
                             !.notice = "none"]
    /\ UNCHANGED <<runVars, ext, fmt, snd, ovl>>

\* Lines 322-323: the error notification is sent.
DNotifyOk ==
    /\ dmn.pc = "notify"
    /\ dmn' = [dmn EXCEPT !.pc = "pause", !.notice = "sent"]
    /\ UNCHANGED <<runVars, ext, fmt, snd, ovl>>

\* Variant of DNotifyFail without the inner try/except: the exception of the
\* notification leaves run_daemon.
DNotifyFail_propagates ==
    /\ dmn.pc = "notify"
    /\ dmn' = [dmn EXCEPT !.pc = "stopped", !.notice = "failed"]
    /\ UNCHANGED <<runVars, ext, fmt, snd, ovl>>

\* Lines 322-325: send_message raises and the exception is dropped.
DNotifyFail ==
    /\ dmn.pc = "notify"
    /\ dmn' = [dmn EXCEPT !.pc = "pause", !.notice = "failed"]
    /\ UNCHANGED <<runVars, ext, fmt, snd, ovl>>

\* Line 327: time.sleep(2), then the next iteration of while True.
DPause ==
    /\ dmn.pc = "pause"
    /\ dmn' = [dmn EXCEPT !.pc = "delay"]
    /\ UNCHANGED <<runVars, ext, fmt, snd, ovl>>

DmnNext ==
    \/ DDelay
    \/ DDelayFallback
    \/ DSleep
    \/ DRunOk
    \/ DRunFail
    \/ DNotifyOk
    \/ DNotifyFail
    \/ DPause

\* The daemon is one thread: each sleep returns and each call returns or
\* raises, so a step that can be taken is taken.
SpecDaemon == DmnInit /\ [][DmnNext]_vars /\ WF_vars(DmnNext)

(***************************************************************************)
(* Properties.                                                             *)
(***************************************************************************)
\* The id the loop derives for the i-th entry of the document.
IdOf(i) == _extract_entry_id(entries[i])
HasId(i) == Truthy(IdOf(i))
Positions == 1..Len(entries)
SentSet == SetOf(sent)

\* C1 as stated: an entry whose id an earlier run sent, recorded and saved is
\* never handed to send_message by a later run.
C1_NeverResent ==
    (AtEntry /\ HasId(idx) /\ IdOf(idx) \in recorded)
        => ~ToSend(entries[idx], posted_ids)

\* C1, amended: an id that an earlier run sent, recorded and saved, and that
\* no _save_state since has dropped for exceeding MAX_TRACKED_IDS, is in the
\* state file, and a later run does not hand its entry to send_message.
C1_NotResentUnlessEvicted ==
    /\ (recorded \ evicted) \subseteq SetOf(file.posted_ids)
    /\ (AtEntry /\ HasId(idx) /\ IdOf(idx) \in recorded \ evicted)
        => ~ToSend(entries[idx], posted_ids)

\* A later run is at an entry whose id was recorded and saved before, after
\* some _save_state has dropped other ids.
C1_Witness ==
    /\ AtEntry /\ HasId(idx)
    /\ IdOf(idx) \in recorded \ evicted
    /\ evicted # {}
    /\ clock >= 2

\* C2: within one run at most one entry per non-empty id is handed to
\* send_message: the entries sent have pairwise different ids, and an entry
\* about to be sent has the id of none of them.
C2_AtMostOnePerId ==
    /\ \A i, j \in 1..Len(sent) :
          (i # j /\ HasId(sent[i]) /\ HasId(sent[j]))
              => IdOf(sent[i]) # IdOf(sent[j])
    /\ (AtEntry /\ HasId(idx) /\ ToSend(entries[idx], posted_ids))
          => \A k \in SentSet : IdOf(k) # IdOf(idx)

\* A run is over in which two entries had the same id and one was sent.
C2_Witness ==
    /\ pc = "done"
    /\ \E i, j \in Positions :
          i < j /\ HasId(i) /\ IdOf(i) = IdOf(j) /\ entries[i] # entries[j]
          /\ i \in SentSet

\* C3 as stated: of two entries of a run with the same id, not in the loaded
\* state, both are sent.
C3_BothSent ==
    pc = "done" =>
        \A i, j \in Positions :
            (i < j /\ HasId(i) /\ IdOf(i) = IdOf(j) /\ IdOf(i) \notin loaded)
                => (i \in SentSet /\ j \in SentSet)

\* C3, amended: of the entries of a completed run that resolve to one id, not
\* in the loaded state, exactly the first whose message is not empty is
\* sent; the later ones are skipped, because the check of line 242 sees the
\* ids recorded earlier in the same run.
C3_OnlyFirstSent ==
    pc = "done" =>
        \A j \in Positions :
            (HasId(j) /\ IdOf(j) \notin loaded) =>
                (j \in SentSet <=>
                    /\ format_entry_html(entries[j]) # <<>>
                    /\ \A i \in 1..(j - 1) :
                          IdOf(i) = IdOf(j)
                              => format_entry_html(entries[i]) = <<>>)

\* A run is over in which the second of two entries with the same new id
\* was skipped.
C3_Witness ==
    /\ pc = "done"
    /\ \E i, j \in Positions :
          /\ i < j /\ HasId(i) /\ IdOf(i) = IdOf(j) /\ IdOf(i) \notin loaded
          /\ i \in SentSet /\ j \notin SentSet

\* C4: a run in which send_message raises saves nothing and sends nothing
\* more: the state file is as it was at run start and holds the id of no
\* entry the run had sent, the next step is the start of another run, and a
\* next run over the same document hands every entry the failed run had sent
\* to send_message again (all of them are sent again when it completes).
C4_FailedRunPersistsNothing ==
    /\ [](pc = "failed" =>
            /\ file = fileAtStart
            /\ \A k \in SentSet :
                  HasId(k) => IdOf(k) \notin SetOf(file.posted_ids))
    /\ [][pc = "failed" => clock' = clock + 1]_vars
    /\ []((prev # {} /\ AtEntry /\ idx \in prev)
            => ToSend(entries[idx], posted_ids))
    /\ []((prev # {} /\ pc = "done") => prev \subseteq SentSet)

\* A run over the document of a failed run is over and has sent again the
\* entries, one of them with an id, that the failed run had sent.
C4_Witness ==
    /\ pc = "done"
    /\ prev # {}
    /\ \E k \in prev : HasId(k) /\ k \in SentSet

\* C5: a run over a document all of whose entries have an id of the loaded
\* store sends nothing, does not fail, leaves the state file as it was and
\* prints the "no new submissions" outcome.
AllInLoaded ==
    /\ entries # <<>>
    /\ \A i \in Positions : HasId(i) /\ IdOf(i) \in loaded

C5_NothingNewNothingDone ==
    (pc # "idle" /\ AllInLoaded) =>
        /\ sent = <<>>
        /\ pc # "failed"
        /\ file = fileAtStart
        /\ pc = "done" => printed = [kind |-> "none", n |-> 0]

\* Such a run is over.
C5_Witness == pc = "done" /\ AllInLoaded /\ Len(entries) = MaxEntries

\* C6 as stated: a completed run has written the state file exactly when it
\* recorded an id into the working set.
C6_SavedIffIdRecorded ==
    pc = "done" => (file # fileAtStart <=> posted_ids # loaded)

\* C6, amended: a completed run has written the state file, with the ids
\* _save_state keeps of the working set and the time of the run, exactly
\* when it sent at least one entry, with or without an id; a run that sent
\* nothing leaves the file as it was.
C6_SavedIffSent ==
    pc = "done" =>
        IF sent # <<>>
        THEN /\ file = _save_state(posted_ids, isoformat(clock))
             /\ file # fileAtStart
             /\ printed.kind = "posted"
        ELSE /\ file = fileAtStart
             /\ printed.kind = "none"

\* A completed run has sent entries, recorded no id and written the file.
C6_Witness ==
    /\ pc = "done"
    /\ sent # <<>>
    /\ posted_ids = loaded
    /\ file # fileAtStart

\* C7 as stated: the number a completed run reports is the number of entries
\* it sent.
C7_ReportsSendCount == pc = "done" => printed.n = Len(sent)

\* C8: an entry with no derivable id and a non-empty message is never
\* skipped: the step the loop takes at it is a send, after which the working
\* set is as before, or the failure of that send; a completed run has sent
\* every such entry of its document.
NoIdEntry(i) ==
    IdOf(i) = None /\ format_entry_html(entries[i]) # <<>>

C8_NoIdAlwaysSent ==
    /\ [][(AtEntry /\ NoIdEntry(idx)) =>
            \/ /\ sent' = Append(sent, idx)
               /\ posted_ids' = posted_ids
               /\ idx' = idx + 1
            \/ /\ pc' = "failed"
               /\ posted_ids' = posted_ids]_vars
    /\ [](pc = "done" => \A i \in Positions : NoIdEntry(i) => i \in SentSet)

\* A second or later run has sent an entry without id, against a store that
\* knows every id it holds after the run.
C8_Witness ==
    /\ pc = "done"
    /\ clock >= 2
    /\ posted_ids = loaded
    /\ loaded # {}
    /\ \E i \in SentSet : NoIdEntry(i)

\* C9 as stated: neither the saved record nor the working copy ever holds
\* more than MAX_TRACKED_IDS ids.
C9_NeverAboveCap ==
    /\ Len(file.posted_ids) <= MAX_TRACKED_IDS
    /\ Cardinality(posted_ids) <= MAX_TRACKED_IDS

\* C9, amended: the saved record, and so the set a run loads, holds at most
\* MAX_TRACKED_IDS ids; the working copy holds at most that many plus the
\* number of entries the run has sent.
C9_SavedAtMostCap ==
    /\ Len(file.posted_ids) <= MAX_TRACKED_IDS
    /\ Cardinality(loaded) <= MAX_TRACKED_IDS
    /\ Cardinality(posted_ids) <= MAX_TRACKED_IDS + Len(sent)

\* A run has saved a working copy of more than MAX_TRACKED_IDS ids.
C9_Witness ==
    /\ pc = "done"
    /\ Cardinality(posted_ids) > MAX_TRACKED_IDS
    /\ file # fileAtStart
    /\ Len(file.posted_ids) = MAX_TRACKED_IDS

\* C10: the list a run saves is strictly ascending in string order and is
\* made of ids of the working set: all of them when there are at most
\* MAX_TRACKED_IDS, else MAX_TRACKED_IDS of them, every dropped id being
\* smaller than every kept one.
C10_KeepsGreatest ==
    (pc = "done" /\ sent # <<>>) =>
        LET ids == file.posted_ids
            n == Cardinality(posted_ids)
        IN  /\ \A i \in 1..(Len(ids) - 1) : StrLess(ids[i], ids[i + 1])
            /\ SetOf(ids) \subseteq posted_ids
            /\ Len(ids) = IF n > MAX_TRACKED_IDS THEN MAX_TRACKED_IDS ELSE n
            /\ \A x \in posted_ids \ SetOf(ids) :
                  \A y \in SetOf(ids) : StrLess(x, y)

\* A run has saved more than MAX_TRACKED_IDS ids: it dropped an id of the
\* loaded store and kept one it recorded.
C10_Witness ==
    /\ pc = "done"
    /\ sent # <<>>
    /\ Cardinality(posted_ids) > MAX_TRACKED_IDS
    /\ loaded \ SetOf(file.posted_ids) # {}
    /\ SetOf(file.posted_ids) \ loaded # {}

\* C11 as stated: what _load_state returns for the file a run has saved is
\* the set and the timestamp the run gave to _save_state.
C11_RoundTrip ==
    (pc = "done" /\ sent # <<>>) =>
        /\ _load_state(file).posted = posted_ids
        /\ _load_state(file).last_run = isoformat(clock)

\* C11, amended: what _load_state returns for the file a run has saved is the
\* timestamp given to _save_state and, of the set given to it, every id when
\* there are at most MAX_TRACKED_IDS, else the MAX_TRACKED_IDS greatest in
\* string order.
C11_RoundTripUpToCap ==
    (pc = "done" /\ sent # <<>>) =>
        LET got == _load_state(file).posted
            n == Cardinality(posted_ids)
        IN  /\ _load_state(file).last_run = isoformat(clock)
            /\ got \subseteq posted_ids
            /\ n <= MAX_TRACKED_IDS => got = posted_ids
            /\ n > MAX_TRACKED_IDS => Cardinality(got) = MAX_TRACKED_IDS
            /\ \A x \in posted_ids \ got : \A y \in got : StrLess(x, y)

\* A run has saved a set that the reload returns whole, with its timestamp,
\* on top of a store that was not empty.
C11_Witness ==
    /\ pc = "done"
    /\ sent # <<>>
    /\ loaded # {}
    /\ posted_ids # loaded
    /\ _load_state(file).posted = posted_ids
    /\ _load_state(file).last_run = isoformat(clock)

\* The run began with no state file or with a malformed one.
BadStart == pc # "idle" /\ fileAtStart.kind \in {"missing", "malformed"}

\* C12 as stated: after such a start no entry the loop comes to is taken
\* for posted.
C12_AllNew ==
    (BadStart /\ AtEntry) => ~AlreadyPosted(entries[idx], posted_ids)

\* C12, amended: such a start loads the empty set and the run goes on; an
\* entry is taken for posted only when an entry with the same id was sent
\* earlier in the same run, and the run fails only in the fetch or in a
\* send.
C12_BadFileLoadsEmpty ==
    BadStart =>
        /\ loaded = {}
        /\ AtEntry =>
              (AlreadyPosted(entries[idx], posted_ids)
                  <=> \E k \in SentSet : HasId(idx) /\ IdOf(k) = IdOf(idx))
        /\ pc = "failed" =>
              \/ entries = <<>>
              \/ /\ idx <= Len(entries)
                 /\ format_entry_html(entries[idx]) # <<>>
                 /\ ~(HasId(idx) /\ IdOf(idx) \in posted_ids)
        /\ pc = "done" =>
              \A j \in Positions :
                  (format_entry_html(entries[j]) # <<>> /\ ~HasId(j))
                      => j \in SentSet

\* A run that began with a malformed state file has sent every entry of a
\* full document and saved.
C12_Witness ==
    /\ pc = "done"
    /\ fileAtStart.kind = "malformed"
    /\ Len(sent) = MaxEntries
    /\ file.kind = "valid"

\* The ids of the entries the run has sent.
SentIds == {IdOf(k) : k \in {i \in SentSet : HasId(i)}}

\* C16: the working set changes only when a run starts and when
\* send_message has returned for an entry, whose id is then added; the file
\* changes only at the end of a run that has sent; so the working set and
\* the list a run saves hold only ids that were loaded or belong to entries
\* the run has sent.
C16_RecordedAfterSend ==
    /\ [][posted_ids' # posted_ids =>
            \/ pc # "loop" /\ pc' \in {"loop", "failed"} /\ sent' = <<>>
            \/ /\ sent' = Append(sent, idx)
               /\ posted_ids' = posted_ids \cup {IdOf(idx)}]_vars
    /\ [][file' # file => (pc = "loop" /\ pc' = "done" /\ sent # <<>>)]_vars
    /\ [](posted_ids \subseteq loaded \cup SentIds)
    /\ []((pc = "done" /\ sent # <<>>)
            => SetOf(file.posted_ids) \subseteq loaded \cup SentIds)

\* A run has saved ids it loaded together with an id it sent.
C16_Witness ==
    /\ pc = "done"
    /\ sent # <<>>
    /\ SetOf(file.posted_ids) \cap loaded # {}
    /\ SetOf(file.posted_ids) \cap SentIds # {}

\* The working set when the loop comes to the i-th entry: the loaded ids and
\* the ids of the entries sent before it.
SeenBefore(i) == loaded \cup {IdOf(k) : k \in {j \in SentSet : j < i /\ HasId(j)}}

\* C17: the entries are sent one at a time in document order; a completed
\* run has sent exactly the entries that had no id or an id not in the
\* working set when the loop came to them, and a message that is not empty;
\* a step that skips an entry sends and records nothing.
C17_SendsInDocumentOrder ==
    /\ [](\A a, b \in 1..Len(sent) : a < b => sent[a] < sent[b])
    /\ [](Len(newly_posted) = Len(sent))
    /\ [](pc = "done" =>
            \A i \in Positions :
                i \in SentSet <=>
                    /\ ~(HasId(i) /\ IdOf(i) \in SeenBefore(i))
                    /\ format_entry_html(entries[i]) # <<>>)
    /\ [][(pc = "loop" /\ pc' = "loop" /\ idx' = idx + 1) =>
            \/ /\ sent' = Append(sent, idx)
               /\ Len(newly_posted') = Len(newly_posted) + 1
            \/ /\ sent' = sent
               /\ posted_ids' = posted_ids
               /\ newly_posted' = newly_posted]_vars

\* A completed run has sent its second entry and skipped its first.
C17_Witness ==
    /\ pc = "done"
    /\ Len(entries) = MaxEntries
    /\ 1 \notin SentSet
    /\ MaxEntries \in SentSet

\* The section of a document: the nodes after the first matching header and
\* before the next h3; its dt/dd stream; the stream node that follows node i.
SectionStart == FirstNewH3(ext.nodes)
SectionEnd ==
    LET hs == {i \in (SectionStart + 1)..Len(ext.nodes) :
                  ext.nodes[i].name = "h3"}
    IN  IF hs = {} THEN Len(ext.nodes) + 1
        ELSE CHOOSE i \in hs : \A j \in hs : i <= j
Stream ==
    IF SectionStart = 0 THEN {}
    ELSE {i \in (SectionStart + 1)..(SectionEnd - 1) :
             ext.nodes[i].name \in {"dt", "dd"}}
NextInStream(i) ==
    LET after == {j \in Stream : j > i}
    IN  IF after = {} THEN 0 ELSE CHOOSE j \in after : \A k \in after : j <= k
DirectPairs ==
    {<<i, NextInStream(i)>> : i \in {j \in Stream :
        /\ ext.nodes[j].name = "dt"
        /\ NextInStream(j) # 0
        /\ ext.nodes[NextInStream(j)].name = "dd"}}

\* C14: the extractor returns exactly one entry, in document order, for each
\* dt of the section that is directly followed by a dd in the dt/dd stream,
\* built from that dt and that dd; every other dt and dd, and every node at
\* or after the next h3, contributes nothing.
C14_PairsDtWithNextDd ==
    /\ Len(ext.entries) = Len(ext.pairs)
    /\ SetOf(ext.pairs) \subseteq DirectPairs
    /\ \A k \in 1..Len(ext.pairs) :
          /\ ext.entries[k] =
                MakeEntry(ext.nodes[ext.pairs[k][1]].href, None,
                          ext.nodes[ext.pairs[k][2]].title, <<>>, <<>>, <<>>)
          /\ \A m \in 1..(k - 1) : ext.pairs[m][1] < ext.pairs[k][1]
    /\ ext.pc = "done" => SetOf(ext.pairs) = DirectPairs

C14_Witness ==
    /\ ext.pc = "done"
    /\ Len(ext.entries) >= 1
    /\ \E i \in Stream : ext.nodes[i].name = "dt"
          /\ \A k \in 1..Len(ext.pairs) : ext.pairs[k][1] # i
    /\ SectionEnd <= Len(ext.nodes)

\* The call of send_message has ended; the status of the last response.
SndEnded == snd.pc \in {"returned", "raised"}
LastStatus == snd.statuses[Len(snd.statuses)]
All429 == \A i \in 1..Len(snd.statuses) : snd.statuses[i] = HTTP_TOO_MANY
AnsweredNoError ==
    /\ snd.statuses # <<>>
    /\ LastStatus # HTTP_TOO_MANY
    /\ LastStatus < 400

\* C18 as stated: a call whose first response other than 429 carries a
\* status that is no error returns.
C18_ReturnsFirstSuccess ==
    (SndEnded /\ AnsweredNoError) => snd.pc = "returned"

\* C18: send_message ends after at most 6 POSTs; every response before the
\* last one was a 429; it returns only on a non-429 status that is no error,
\* and then unless the body cannot be decoded; it raises on the first other
\* error status; after six 429 answers it raises.
C18_AtMostSixPosts ==
    /\ [](/\ snd.posts <= MaxAttempts
          /\ Len(snd.statuses) <= snd.posts
          /\ \A i \in 1..(Len(snd.statuses) - 1) :
                snd.statuses[i] = HTTP_TOO_MANY
          /\ snd.pc = "loop" => All429 /\ Len(snd.statuses) = snd.posts
          /\ snd.pc = "returned" => AnsweredNoError
          /\ (SndEnded /\ AnsweredNoError) =>
                snd.outcome \in {"returned", "bad_body"}
          /\ (SndEnded /\ snd.statuses # <<>> /\ LastStatus # HTTP_TOO_MANY
                /\ LastStatus >= 400) => snd.pc = "raised"
          /\ (SndEnded /\ All429) => snd.pc = "raised")
    /\ [][(All429 /\ Len(snd.statuses) = MaxAttempts) =>
             (snd'.pc = "raised" /\ snd'.posts = MaxAttempts)]_vars
    /\ <>SndEnded

C18_Witness ==
    /\ snd.pc = "raised"
    /\ snd.outcome = "exhausted"
    /\ snd.posts = MaxAttempts
    /\ Len(snd.sleeps) = MaxAttempts

\* C15: the text format_entry_html returns is at most 4000 characters long;
\* an assembled text longer than 4000 is returned as its first 3950
\* characters followed by "...", any other assembled text as it is.
C15_NeverAboveLimit ==
    fmt.pc = "done" =>
        LET text == AssembledText(fmt.entry)
        IN  /\ Len(fmt.text) <= MSG_LIMIT
            /\ Len(text) > MSG_LIMIT =>
                  /\ Len(fmt.text) = MSG_KEEP + Len(ELLIPSIS)
                  /\ SubSeq(fmt.text, 1, MSG_KEEP) = SubSeq(text, 1, MSG_KEEP)
                  /\ SubSeq(fmt.text, MSG_KEEP + 1, Len(fmt.text)) = ELLIPSIS
            /\ Len(text) <= MSG_LIMIT => fmt.text = text

C15_Witness ==
    /\ fmt.pc = "done"
    /\ Len(AssembledText(fmt.entry)) = MSG_LIMIT + 1
    /\ Len(fmt.text) = MSG_KEEP + Len(ELLIPSIS)

\* The ids a run has sent and recorded; runs 1 and 2 both loaded the state
\* before either saved it; both were under way at the same time.
RecordedBy(r) == {x \in SetOf(ovl.runs[r].newly_posted) : Truthy(x)}
SentBy(r) == SetOf(ovl.runs[r].sent)
LoadOverlap ==
    /\ ovl.runs[1].hasLoaded /\ ovl.runs[1].savesAtLoad = 0
    /\ ovl.runs[2].hasLoaded /\ ovl.runs[2].savesAtLoad = 0
TimeOverlap ==
    /\ ovl.runs[1].pc # "idle" /\ ovl.runs[1].savesAtFetch = 0
    /\ ovl.runs[2].pc # "idle" /\ ovl.runs[2].savesAtFetch = 0

\* C13: nothing keeps a second run from loading the state while a first run
\* is under way, and a run filters with its own working set only, the ids it
\* loaded and the ids it sent itself: an id the other run has sent since is
\* not in it, so both runs can send the same entry.
C13_WorkingSetIsPrivate ==
    \A r \in OvlRuns :
        /\ ovl.runs[r].pc = "load" => ENABLED OLoad(r)
        /\ ovl.runs[r].pc \in {"loop", "done", "failed"} =>
              ovl.runs[r].posted_ids = ovl.runs[r].loaded \cup RecordedBy(r)

C13_Witness ==
    /\ LoadOverlap
    /\ SentBy(1) \cap SentBy(2) # {}

\* Runs 1 and 2 have both saved; the ids the first writer recorded and the
\* last writer did not.
BothSaved ==
    Len(ovl.writers) >= 2 /\ {ovl.writers[1], ovl.writers[2]} = {1, 2}
FirstWriter == ovl.writers[1]
LastWriter == ovl.writers[2]
LostIds == RecordedBy(FirstWriter) \ RecordedBy(LastWriter)

\* What C19 says of the ids in LostIds: the file is the record of the last
\* writer, none of these ids is in it, and a later run that comes to an
\* entry with such an id, not having sent it itself, sends it.
LostAndSentAgain ==
    /\ Len(ovl.writers) = 2 =>
          /\ ovl.file = _save_state(ovl.runs[LastWriter].posted_ids, isoformat(2))
          /\ \A x \in LostIds : x \notin SetOf(ovl.file.posted_ids)
    /\ \A x \in LostIds :
          (/\ OvlAtEntry(3)
           /\ _extract_entry_id(OvlEntry(3)) = x
           /\ x \notin SentBy(3))
              => ENABLED OSendOk(3)

\* C19 as stated: for any two runs under way at the same time that both
\* persist.
C19_LostWheneverOverlapping == (TimeOverlap /\ BothSaved) => LostAndSentAgain

\* C19: when two runs both load the state before either saves it and both
\* persist, the file is the full overwrite by the last writer; an id the
\* first writer recorded and the last writer did not is absent from it, and
\* a later run that comes to its entry sends it again.
C19_LostWhenLoadedBeforeSave == (LoadOverlap /\ BothSaved) => LostAndSentAgain

C19_Witness ==
    /\ LoadOverlap
    /\ BothSaved
    /\ \E x \in LostIds : x \in SentBy(3)

\* C20: a run that raises is followed by one attempt to send the error
\* notification; whether that attempt succeeds or raises, the daemon goes on
\* to its pause and the next iteration, and a further run is started after
\* every failed run.
C20_NextRunAfterFailure ==
    /\ [][dmn.pc = "run" => dmn'.pc \in {"pause", "notify"}]_vars
    /\ [][dmn.pc = "notify" =>
             (dmn'.pc = "pause" /\ dmn'.notice \in {"sent", "failed"})]_vars
    /\ [](dmn.pc = "pause" =>
             (dmn.raised = "none" <=> dmn.notice = "none"))
    /\ [](dmn.pc = "notify" => dmn.raised # "none" /\ dmn.notice = "none")
    /\ (dmn.pc = "notify") ~> (dmn.pc = "run")

C20_Witness ==
    /\ dmn.pc = "run"
    /\ dmn.raised = "send"
    /\ dmn.notice = "failed"

====
